---- MODULE Spec2Model ----
(***************************************************************************)
(* Model of the eligibility check of QualifyPage                           *)
(* (src/frontend/tailwind.config.ts, lines 24-68 and the form's onChange   *)
(* handlers, lines 78-104).                                                *)
(*                                                                         *)
(* GPA numbers are kept in hundredths (2.75 is 275) so that the midpoint   *)
(* comparison of line 54 is an integer comparison.                         *)
(***************************************************************************)
EXTENDS Integers, Sequences, FiniteSets, TLC

VARIABLES
    form,       \* the form state (useState, line 27)
    results,    \* the results state (useState, line 28)
    loading,    \* the loading state (useState, line 29)
    pc,         \* where the last call of handleSubmit is: "idle" (none yet,
                \* or it returned), "awaiting" (line 35), "rejected" (it threw)
    profile,    \* the form the running handleSubmit closed over
    programs,   \* what the query of the last handleSubmit returned (line 35)
    edits,      \* number of form edits so far
    submits     \* number of submissions so far

vars == <<form, results, loading, pc, profile, programs, edits, submits>>

-----------------------------------------------------------------------------
(* Bounds of the model.                                                    *)

\* longest rule list of one program made of any rules
MaxRules == 2
\* longest rule list of one program made of the core rules
MaxCoreRules == 3
\* longest program list a query returns
MaxPrograms == 3
\* longest text typed into the work-experience field
MaxTextLen == 2
\* number of form edits followed
MaxEdits == 2
\* number of submissions followed
MaxSubmits == 2

-----------------------------------------------------------------------------
(* JSON values of a rule (r.value, line 48).  A value is null or an object *)
(* holding at most one key; the key holds an array of strings or a number. *)
(* Reading any other key of the object gives undefined.                    *)

NullValue == [tag |-> "null", key |-> "", shape |-> "", items |-> <<>>, num |-> 0]

EmptyObject == [tag |-> "object", key |-> "", shape |-> "", items |-> <<>>, num |-> 0]

ArrayField(k, xs) == [tag |-> "object", key |-> k, shape |-> "array", items |-> xs, num |-> 0]

NumberField(k, n) == [tag |-> "object", key |-> k, shape |-> "number", items |-> <<>>, num |-> n]

Undefined == [shape |-> "undefined", items |-> <<>>, num |-> 0]

\* val.k for a value that is an object (val[k] in JavaScript)
Get(val, k) ==
    IF val.key = k
    THEN [shape |-> val.shape, items |-> val.items, num |-> val.num]
    ELSE Undefined

Rule(t, op, v) == [rule_type |-> t, operator |-> op, value |-> v]

-----------------------------------------------------------------------------
(* The form (type FormData, line 24) and what its inputs can hold.         *)

Nationalities == {"", "Ghana"}

Degrees == {"", "BSc"}

GpaBands == {"", "below_2.5", "2.5_3.0", "3.0_3.5", "3.5_4.0", "above_4.0"}

Fields == {"", "Computer Science"}

Chars == {"-", "1", "."}

Texts == UNION {[1..n -> Chars] : n \in 0..MaxTextLen}

DigitVal == [c \in {"0", "1", "2", "3", "4", "5", "6", "7", "8", "9"} |->
               CASE c = "0" -> 0 [] c = "1" -> 1 [] c = "2" -> 2 [] c = "3" -> 3
                 [] c = "4" -> 4 [] c = "5" -> 5 [] c = "6" -> 6 [] c = "7" -> 7
                 [] c = "8" -> 8 [] c = "9" -> 9]

IsDigit(c) == c \in DOMAIN DigitVal

RECURSIVE DigitPrefix(_, _)
\* the value of the longest prefix of digits of s, continuing from acc
DigitPrefix(s, acc) ==
    IF s = <<>> \/ ~IsDigit(Head(s))
    THEN acc
    ELSE DigitPrefix(Tail(s), acc * 10 + DigitVal[Head(s)])

\* parseInt(text): an optional sign, then the longest prefix of digits;
\* NaN when there is no digit there.
ParseInt(s) ==
    LET neg == s # <<>> /\ Head(s) = "-"
        body == IF neg THEN Tail(s) ELSE s
    IN  IF body = <<>> \/ ~IsDigit(Head(body))
        THEN [nan |-> TRUE, n |-> 0]
        ELSE [nan |-> FALSE, n |-> IF neg THEN 0 - DigitPrefix(body, 0) ELSE DigitPrefix(body, 0)]

\* parseInt(e.target.value) || 0 : NaN and 0 are falsy
ParseIntOr0(s) ==
    LET r == ParseInt(s) IN IF r.nan \/ r.n = 0 THEN 0 ELSE r.n

InitialForm ==
    [nationality |-> "", degree |-> "", gpa_band |-> "", field |-> "",
     work_experience_years |-> 0]

-----------------------------------------------------------------------------
(* Evaluation of one rule (lines 48-60).                                   *)

\* gpaMap with the upper end of each band in place of its midpoint
gpaMapUpperEnds ==
    [b \in {"below_2.5", "2.5_3.0", "3.0_3.5", "3.5_4.0", "above_4.0"} |->
       CASE b = "below_2.5" -> 250
         [] b = "2.5_3.0" -> 300
         [] b = "3.0_3.5" -> 350
         [] b = "3.5_4.0" -> 400
         [] b = "above_4.0" -> 400]

gpaMap ==
    [b \in {"below_2.5", "2.5_3.0", "3.0_3.5", "3.5_4.0", "above_4.0"} |->
       CASE b = "below_2.5" -> 200
         [] b = "2.5_3.0" -> 275
         [] b = "3.0_3.5" -> 325
         [] b = "3.5_4.0" -> 375
         [] b = "above_4.0" -> 400]

\* (x as number ?? 0): undefined becomes 0
OrZero(x) == IF x.shape = "undefined" THEN 0 ELSE x.num

\* Includes without the optional chaining: xs.includes(s)
IncludesUnchained(xs, s) ==
    IF xs.shape = "array"
    THEN IF \E i \in 1..Len(xs.items) : xs.items[i] = s THEN "true" ELSE "false"
    ELSE "TypeError"

\* xs?.includes(s): undefined when xs is undefined (falsy), membership for
\* an array, a TypeError for a number (it has no includes method)
Includes(xs, s) ==
    CASE xs.shape = "undefined" -> "false"
      [] xs.shape = "array" ->
           IF \E i \in 1..Len(xs.items) : xs.items[i] = s THEN "true" ELSE "false"
      [] OTHER -> "TypeError"

\* GpaAtLeast with the comparison turned round: gpaMap[band] <= min
GpaAtMost(band, min) ==
    IF band \in DOMAIN gpaMap THEN gpaMap[band] <= min ELSE FALSE

\* GpaAtLeast with an unmapped band read as 0: (gpaMap[band] ?? 0) >= min
GpaAtLeastOrZero(band, min) ==
    (IF band \in DOMAIN gpaMap THEN gpaMap[band] ELSE 0) >= min

\* gpaMap[band] >= min : an unmapped band reads undefined, and
\* undefined >= n is false for every number n
GpaAtLeast(band, min) ==
    IF band \in DOMAIN gpaMap THEN gpaMap[band] >= min ELSE FALSE

\* Evaluate dispatching on the rule type alone, whatever the operator
EvaluateByType(r, f) ==
    LET val == r.value
        known == r.rule_type \in {"nationality", "gpa", "degree", "work_experience"}
        truth(b) == IF b THEN "Matched" ELSE "Failed"
        member(k, s) ==
            LET inc == Includes(Get(val, k), s)
            IN  IF inc = "TypeError" THEN "Raise" ELSE truth(inc = "true")
    IN  IF ~known THEN "Indeterminate"
        ELSE IF val.tag = "null" THEN "Raise"
        ELSE IF r.rule_type = "nationality" THEN member("countries", f.nationality)
        ELSE IF r.rule_type = "gpa"
             THEN truth(GpaAtLeast(f.gpa_band, OrZero(Get(val, "min"))))
        ELSE IF r.rule_type = "degree" THEN member("degrees", f.degree)
        ELSE truth(f.work_experience_years >= OrZero(Get(val, "years")))

\* The outcome of one rule for the form f: the branch of lines 49-60 taken
\* and the counter it increments.  "Indeterminate" is the final else
\* (matches++); "Raise" is a TypeError thrown while reading the value.
Evaluate(r, f) ==
    LET val == r.value
        known == \/ r.rule_type = "nationality" /\ r.operator = "in"
                 \/ r.rule_type = "gpa" /\ r.operator = ">="
                 \/ r.rule_type = "degree" /\ r.operator = "in"
                 \/ r.rule_type = "work_experience" /\ r.operator = ">="
        truth(b) == IF b THEN "Matched" ELSE "Failed"
        member(k, s) ==
            LET inc == Includes(Get(val, k), s)
            IN  IF inc = "TypeError" THEN "Raise" ELSE truth(inc = "true")
    IN  IF ~known THEN "Indeterminate"
        ELSE IF val.tag = "null" THEN "Raise"
        ELSE IF r.rule_type = "nationality" THEN member("countries", f.nationality)
        ELSE IF r.rule_type = "gpa"
             THEN truth(GpaAtLeast(f.gpa_band, OrZero(Get(val, "min"))))
        ELSE IF r.rule_type = "degree" THEN member("degrees", f.degree)
        ELSE truth(f.work_experience_years >= OrZero(Get(val, "years")))

-----------------------------------------------------------------------------
(* Classification of one program (lines 43-64).                            *)

NoRules == [tag |-> "null", items |-> <<>>]

RuleArray(rs) == [tag |-> "array", items |-> rs]

Program(i, er) == [id |-> i, eligibility_rules |-> er]

RECURSIVE TallyUntilFail(_, _, _)
\* Tally leaving the loop at the first rule that fails
TallyUntilFail(rs, f, acc) ==
    IF rs = <<>> THEN acc
    ELSE LET o == Evaluate(Head(rs), f)
         IN  IF o = "Raise" THEN [acc EXCEPT !.raised = TRUE]
             ELSE IF o = "Failed" THEN [acc EXCEPT !.fails = @ + 1]
             ELSE TallyUntilFail(Tail(rs), f, [acc EXCEPT !.matches = @ + 1])

RECURSIVE Tally(_, _, _)
\* the loop of lines 46-61 over the rules rs, continuing from the counters
\* acc; a rule that throws ends the loop
Tally(rs, f, acc) ==
    IF rs = <<>> THEN acc
    ELSE LET o == Evaluate(Head(rs), f)
         IN  IF o = "Raise" THEN [acc EXCEPT !.raised = TRUE]
             ELSE IF o = "Failed"
                  THEN Tally(Tail(rs), f, [acc EXCEPT !.fails = @ + 1])
                  ELSE Tally(Tail(rs), f, [acc EXCEPT !.matches = @ + 1])

\* Bucket with the two pushes of lines 62-63 exchanged
BucketExchanged(matches, fails) ==
    IF fails = 0 /\ matches > 0 THEN "maybe"
    ELSE IF fails > 0 /\ matches > 0 THEN "eligible"
    ELSE "not_eligible"

\* Bucket without the test of matches in line 63
BucketNoMatchTest(matches, fails) ==
    IF fails = 0 /\ matches > 0 THEN "eligible"
    ELSE IF fails > 0 THEN "maybe"
    ELSE "not_eligible"

\* lines 62-64
Bucket(matches, fails) ==
    IF fails = 0 /\ matches > 0 THEN "eligible"
    ELSE IF fails > 0 /\ matches > 0 THEN "maybe"
    ELSE "not_eligible"

\* Classify without the test of line 44 for an empty rule list
ClassifyNoEmptyTest(p, f) ==
    LET rules == IF p.eligibility_rules.tag = "null" THEN <<>>
                 ELSE p.eligibility_rules.items
        t == Tally(rules, f, [matches |-> 0, fails |-> 0, raised |-> FALSE])
    IN  IF t.raised THEN "Raise" ELSE Bucket(t.matches, t.fails)

\* the group the program p is pushed to for the form f, or "Raise"
Classify(p, f) ==
    LET rules == IF p.eligibility_rules.tag = "null" THEN <<>>
                 ELSE p.eligibility_rules.items
    IN  IF Len(rules) = 0 THEN "maybe"
        ELSE LET t == Tally(rules, f, [matches |-> 0, fails |-> 0, raised |-> FALSE])
             IN  IF t.raised THEN "Raise" ELSE Bucket(t.matches, t.fails)

-----------------------------------------------------------------------------
(* Classification of the programs of one query (lines 38-66).              *)

NoResults ==
    [tag |-> "null", eligible |-> <<>>, maybe |-> <<>>, not_eligible |-> <<>>]

RECURSIVE ClassifyAllStripped(_, _, _)
\* ClassifyAll pushing each program without its eligibility_rules
ClassifyAllStripped(ps, f, acc) ==
    IF ps = <<>> THEN acc
    ELSE LET p == Head(ps)
             q == [id |-> p.id, eligibility_rules |-> [tag |-> "null", items |-> <<>>]]
             b == Classify(p, f)
         IN  IF b = "Raise" THEN [acc EXCEPT !.tag = "Raise"]
             ELSE IF b = "eligible"
                  THEN ClassifyAllStripped(Tail(ps), f, [acc EXCEPT !.eligible = Append(@, q)])
             ELSE IF b = "maybe"
                  THEN ClassifyAllStripped(Tail(ps), f, [acc EXCEPT !.maybe = Append(@, q)])
             ELSE ClassifyAllStripped(Tail(ps), f, [acc EXCEPT !.not_eligible = Append(@, q)])

RECURSIVE ClassifyAll(_, _, _)
\* the loop of lines 42-65 over the programs ps, continuing from the three
\* lists of acc; tag "Raise" when a program's rules throw
ClassifyAll(ps, f, acc) ==
    IF ps = <<>> THEN acc
    ELSE LET p == Head(ps)
             b == Classify(p, f)
         IN  IF b = "Raise" THEN [acc EXCEPT !.tag = "Raise"]
             ELSE IF b = "eligible"
                  THEN ClassifyAll(Tail(ps), f, [acc EXCEPT !.eligible = Append(@, p)])
             ELSE IF b = "maybe"
                  THEN ClassifyAll(Tail(ps), f, [acc EXCEPT !.maybe = Append(@, p)])
             ELSE ClassifyAll(Tail(ps), f, [acc EXCEPT !.not_eligible = Append(@, p)])

EmptyGroups ==
    [tag |-> "set", eligible |-> <<>>, maybe |-> <<>>, not_eligible |-> <<>>]

-----------------------------------------------------------------------------
(* The rules and programs the store is taken to hold.                      *)

RuleCatalogue ==
    { Rule("nationality", "in", ArrayField("countries", <<"Ghana", "Kenya">>)),
      Rule("nationality", "in", EmptyObject),
      Rule("nationality", "in", NullValue),
      Rule("gpa", ">=", NumberField("min", 300)),
      Rule("gpa", ">=", NumberField("min", 330)),
      Rule("gpa", ">=", NumberField("min", 0)),
      Rule("gpa", ">=", NumberField("min", 0 - 100)),
      Rule("gpa", ">=", EmptyObject),
      Rule("degree", "in", ArrayField("degrees", <<"BSc", "MSc">>)),
      Rule("degree", "in", EmptyObject),
      Rule("work_experience", ">=", NumberField("years", 5)),
      Rule("work_experience", ">=", EmptyObject),
      Rule("visa_status", "in", NullValue),
      Rule("gpa", "in", NumberField("min", 401)) }

\* the rules of the catalogue that rule lists of two rules and more are made
\* of; the other rules of the catalogue are the only rule of their program
MixRules ==
    { Rule("nationality", "in", ArrayField("countries", <<"Ghana", "Kenya">>)),
      Rule("nationality", "in", NullValue),
      Rule("gpa", ">=", NumberField("min", 300)),
      Rule("gpa", ">=", NumberField("min", 330)),
      Rule("gpa", ">=", EmptyObject),
      Rule("degree", "in", ArrayField("degrees", <<"BSc", "MSc">>)),
      Rule("work_experience", ">=", NumberField("years", 5)),
      Rule("visa_status", "in", NullValue) }

\* the rules that the longest rule lists are made of
CoreRules ==
    { Rule("nationality", "in", ArrayField("countries", <<"Ghana", "Kenya">>)),
      Rule("work_experience", ">=", NumberField("years", 5)),
      Rule("nationality", "in", NullValue),
      Rule("visa_status", "in", NullValue) }

RuleLists ==
    {<<r>> : r \in RuleCatalogue}
      \cup UNION {[1..n -> MixRules] : n \in 0..MaxRules}
      \cup UNION {[1..n -> CoreRules] : n \in 0..MaxCoreRules}

\* one program with any rule list, or without a rule list
SinglePrograms ==
    {Program(1, NoRules)} \cup {Program(1, RuleArray(rs)) : rs \in RuleLists}

\* a few programs to make up longer program lists
BatchCatalogue ==
    { Program(1, RuleArray(<<Rule("visa_status", "in", NullValue)>>)),
      Program(2, RuleArray(<<Rule("nationality", "in", ArrayField("countries", <<"Ghana", "Kenya">>)),
                             Rule("work_experience", ">=", NumberField("years", 5))>>)),
      Program(3, RuleArray(<<Rule("gpa", ">=", NumberField("min", 300))>>)),
      Program(4, RuleArray(<<Rule("degree", "in", NumberField("degrees", 7))>>)) }

ProgramLists ==
    {<<p>> : p \in SinglePrograms}
      \cup UNION {[1..n -> BatchCatalogue] : n \in {0} \cup 2..MaxPrograms}

Forms ==
    [nationality : Nationalities, degree : Degrees, gpa_band : GpaBands,
     field : {""}, work_experience_years : {ParseIntOr0(t) : t \in Texts}]

NoPrograms == [tag |-> "null", items |-> <<>>]

-----------------------------------------------------------------------------
(* The page.                                                               *)

Init ==
    /\ form = InitialForm
    /\ results = NoResults
    /\ loading = FALSE
    /\ pc = "idle"
    /\ profile = InitialForm
    /\ programs = NoPrograms
    /\ edits = 0
    /\ submits = 0

Edit(f) ==
    /\ edits < MaxEdits
    /\ form' = f
    /\ edits' = edits + 1
    /\ UNCHANGED <<results, loading, pc, profile, programs, submits>>

\* line 78
SetNationality == \E n \in Nationalities : Edit([form EXCEPT !.nationality = n])

\* line 83
SetDegree == \E d \in Degrees : Edit([form EXCEPT !.degree = d])

\* line 91
SetGpaBand == \E b \in GpaBands : Edit([form EXCEPT !.gpa_band = b])

\* line 99
SetField == \E x \in Fields : Edit([form EXCEPT !.field = x])

\* line 104
SetWorkExperience ==
    \E t \in Texts : Edit([form EXCEPT !.work_experience_years = ParseIntOr0(t)])

\* lines 31-35, up to the await; the submit button is disabled while loading
Submit ==
    /\ ~loading
    /\ submits < MaxSubmits
    /\ submits' = submits + 1
    /\ loading' = TRUE
    /\ pc' = "awaiting"
    /\ profile' = form
    /\ programs' = NoPrograms
    /\ UNCHANGED <<form, results, edits>>

\* line 36: the query returned no data
QueryNull ==
    /\ pc = "awaiting"
    /\ programs' = NoPrograms
    /\ loading' = FALSE
    /\ pc' = "idle"
    /\ UNCHANGED <<form, results, profile, edits, submits>>

\* lines 36-67: the query returned programs, one of the lists of store
QueryData(store) ==
    /\ pc = "awaiting"
    /\ \E ps \in store :
         /\ programs' = [tag |-> "array", items |-> ps]
         /\ LET out == ClassifyAll(ps, profile, EmptyGroups)
            IN  IF out.tag = "Raise"
                THEN /\ pc' = "rejected"
                     /\ UNCHANGED <<results, loading>>
                ELSE /\ results' = out
                     /\ loading' = FALSE
                     /\ pc' = "idle"
    /\ UNCHANGED <<form, profile, edits, submits>>

\* the program lists followed through the page
PageProgramLists ==
    { <<>>,
      <<Program(3, RuleArray(<<Rule("gpa", ">=", NumberField("min", 300))>>))>>,
      <<Program(4, RuleArray(<<Rule("degree", "in", NumberField("degrees", 7))>>))>> }

Next ==
    \/ SetNationality
    \/ SetDegree
    \/ SetGpaBand
    \/ SetField
    \/ SetWorkExperience
    \/ Submit
    \/ QueryNull
    \/ QueryData(PageProgramLists)

Spec == Init /\ [][Next]_vars

-----------------------------------------------------------------------------
(* The classification alone: a submission of any form is waiting for its   *)
(* query, which returns any of the program lists.                          *)

InitEngine ==
    /\ form \in Forms
    /\ results = NoResults
    /\ loading = TRUE
    /\ pc = "awaiting"
    /\ profile = form
    /\ programs = NoPrograms
    /\ edits = 0
    /\ submits = 1

NextEngine == QueryData(ProgramLists)

SpecEngine == InitEngine /\ [][NextEngine]_vars

-----------------------------------------------------------------------------
(* What the properties below read from a state.                            *)

\* the last call of handleSubmit received programs from its query
Fetched == programs.tag = "array"

\* the last call of handleSubmit received programs and returned, so that
\* results holds what it computed from programs and profile
Published == Fetched /\ pc = "idle"

Fetch == IF Fetched THEN programs.items ELSE <<>>

RulesOf(p) ==
    IF p.eligibility_rules.tag = "null" THEN <<>> ELSE p.eligibility_rules.items

InGroup(p, g) == \E j \in 1..Len(g) : g[j] = p

GroupNames == {"eligible", "maybe", "not_eligible"}

GroupOf(res, name) ==
    CASE name = "eligible" -> res.eligible
      [] name = "maybe" -> res.maybe
      [] name = "not_eligible" -> res.not_eligible

RECURSIVE PickFrom(_, _, _, _)
\* the programs of ps, from position i on, that the assignment a gives to
\* the group name, in the order of ps
PickFrom(ps, a, name, i) ==
    IF i > Len(ps) THEN <<>>
    ELSE (IF a[i] = name THEN <<ps[i]>> ELSE <<>>) \o PickFrom(ps, a, name, i + 1)

\* res is a stable partition of ps: some assignment of the positions of ps
\* to the three groups gives exactly the three lists of res
IsStablePartition(ps, res) ==
    \E a \in [1..Len(ps) -> GroupNames] :
        \A name \in GroupNames : GroupOf(res, name) = PickFrom(ps, a, name, 1)

TablePairs ==
    { <<"nationality", "in">>, <<"gpa", ">=">>, <<"degree", "in">>,
      <<"work_experience", ">=">> }

OffTable(r) == <<r.rule_type, r.operator>> \notin TablePairs

IsRule(r, t, op) == r.rule_type = t /\ r.operator = op

\* the rule's value is an object without the key k
Lacks(r, k) == r.value.tag = "object" /\ r.value.key # k

MappedBands == {"below_2.5", "2.5_3.0", "3.0_3.5", "3.5_4.0", "above_4.0"}

\* the outcomes of the rules rs for the current profile
Outcomes(rs) == {Evaluate(rs[j], profile) : j \in 1..Len(rs)}

-----------------------------------------------------------------------------
\* C1: once a submission has received its programs and is over, the results
\* are a stable partition of those programs: every program, counted with
\* multiplicity, is in exactly one of eligible / maybe / not_eligible, and
\* each group keeps the input order.
C1_StablePartition ==
    (Fetched /\ pc # "awaiting") =>
        /\ results.tag = "set"
        /\ IsStablePartition(programs.items, results)

\* C2: a rule whose (rule_type, operator) pair is off the dispatch table is
\* Indeterminate and counts as a match: a program holding such a rule is
\* never not_eligible, and a program holding only such rules is eligible,
\* whatever the profile.
C2_FailOpen ==
    \A i \in 1..Len(Fetch) :
        LET p == Fetch[i]
            rs == RulesOf(p)
        IN  /\ \A j \in 1..Len(rs) :
                   OffTable(rs[j]) => Evaluate(rs[j], profile) = "Indeterminate"
            /\ (\E j \in 1..Len(rs) : OffTable(rs[j])) =>
                   /\ Classify(p, profile) # "not_eligible"
                   /\ Published => ~InGroup(p, results.not_eligible)
            /\ (Len(rs) > 0 /\ \A j \in 1..Len(rs) : OffTable(rs[j])) =>
                   /\ Classify(p, profile) = "eligible"
                   /\ Published => InGroup(p, results.eligible)

\* C2 witness: a program whose only rule is (gpa, in), a known rule type with
\* another operator, has been published as eligible.
C2_Witness ==
    /\ Published
    /\ \E i \in 1..Len(Fetch) :
          /\ Len(RulesOf(Fetch[i])) = 1
          /\ IsRule(RulesOf(Fetch[i])[1], "gpa", "in")
          /\ InGroup(Fetch[i], results.eligible)

\* C3 as stated: every rule set whose rules all evaluate Matched is
\* classified eligible.
C3_AllMatchedEligible ==
    \A i \in 1..Len(Fetch) :
        Outcomes(RulesOf(Fetch[i])) \subseteq {"Matched"} =>
            Classify(Fetch[i], profile) = "eligible"

\* C3 amended: every non-empty rule set whose rules all evaluate Matched is
\* classified eligible.
C3_NonEmptyAllMatchedEligible ==
    \A i \in 1..Len(Fetch) :
        Outcomes(RulesOf(Fetch[i])) = {"Matched"} =>
            /\ Classify(Fetch[i], profile) = "eligible"
            /\ Published => InGroup(Fetch[i], results.eligible)

\* C3 witness: a program with two rules, both Matched, has been published as
\* eligible.
C3_Witness ==
    /\ Published
    /\ \E i \in 1..Len(Fetch) :
          /\ Len(RulesOf(Fetch[i])) >= 2
          /\ Outcomes(RulesOf(Fetch[i])) = {"Matched"}
          /\ InGroup(Fetch[i], results.eligible)

\* C4: every rule set with at least one rule that evaluates Matched or
\* Indeterminate and at least one rule that evaluates Failed is classified
\* maybe.
C4_MixedMaybe ==
    \A i \in 1..Len(Fetch) :
        LET os == Outcomes(RulesOf(Fetch[i]))
        IN  (os \cap {"Matched", "Indeterminate"} # {} /\ "Failed" \in os) =>
                Classify(Fetch[i], profile) = "maybe"

\* C5 as stated: every rule set whose rules all evaluate Failed is classified
\* not_eligible.
C5_AllFailedNotEligible ==
    \A i \in 1..Len(Fetch) :
        Outcomes(RulesOf(Fetch[i])) \subseteq {"Failed"} =>
            Classify(Fetch[i], profile) = "not_eligible"

\* C5 amended: every non-empty rule set whose rules all evaluate Failed is
\* classified not_eligible.
C5_NonEmptyAllFailedNotEligible ==
    \A i \in 1..Len(Fetch) :
        Outcomes(RulesOf(Fetch[i])) = {"Failed"} =>
            /\ Classify(Fetch[i], profile) = "not_eligible"
            /\ Published => InGroup(Fetch[i], results.not_eligible)

\* C5 witness: a program with two rules, both Failed, has been published as
\* not_eligible.
C5_Witness ==
    /\ Published
    /\ \E i \in 1..Len(Fetch) :
          /\ Len(RulesOf(Fetch[i])) >= 2
          /\ Outcomes(RulesOf(Fetch[i])) = {"Failed"}
          /\ InGroup(Fetch[i], results.not_eligible)

\* C6: a program with an empty or absent rule list is classified maybe for
\* every profile, and is in neither of the other two groups.
C6_EmptyRulesMaybe ==
    \A i \in 1..Len(Fetch) :
        Len(RulesOf(Fetch[i])) = 0 =>
            /\ Classify(Fetch[i], profile) = "maybe"
            /\ Published =>
                   /\ InGroup(Fetch[i], results.maybe)
                   /\ ~InGroup(Fetch[i], results.eligible)
                   /\ ~InGroup(Fetch[i], results.not_eligible)

\* C6 witness: a program without a rule list has been published as maybe, for
\* a profile that is not the initial one.
C6_Witness ==
    /\ Published
    /\ profile # InitialForm
    /\ \E i \in 1..Len(Fetch) :
          /\ Fetch[i].eligibility_rules.tag = "null"
          /\ InGroup(Fetch[i], results.maybe)

\* C7: evaluation never raises: every rule of every program has an outcome,
\* every program gets a group, and no call of handleSubmit ends in an
\* exception.
C7_NeverRaises ==
    /\ pc # "rejected"
    /\ \A i \in 1..Len(Fetch) :
          /\ Outcomes(RulesOf(Fetch[i])) \subseteq {"Matched", "Failed", "Indeterminate"}
          /\ Classify(Fetch[i], profile) \in GroupNames

\* C8: for a profile whose gpa_band is not one of the five mapped bands,
\* every (gpa, >=) rule evaluates Failed, whatever value.min is (absent,
\* zero, positive or negative); a program with only that rule is
\* not_eligible.
C8_UnmappedBandFails ==
    \A i \in 1..Len(Fetch) :
        LET rs == RulesOf(Fetch[i])
        IN  \A j \in 1..Len(rs) :
                ( /\ IsRule(rs[j], "gpa", ">=")
                  /\ rs[j].value.tag = "object"
                  /\ profile.gpa_band \notin MappedBands ) =>
                    /\ Evaluate(rs[j], profile) = "Failed"
                    /\ (Published /\ Len(rs) = 1) => InGroup(Fetch[i], results.not_eligible)

\* C8 witness: with no band chosen, a program whose only rule is (gpa, >=)
\* with a negative min has been published as not_eligible.
C8_Witness ==
    /\ Published
    /\ profile.gpa_band = ""
    /\ \E i \in 1..Len(Fetch) :
          LET rs == RulesOf(Fetch[i])
          IN  /\ Len(rs) = 1
              /\ IsRule(rs[1], "gpa", ">=")
              /\ rs[1].value.key = "min"
              /\ rs[1].value.num < 0
              /\ InGroup(Fetch[i], results.not_eligible)

\* the key of the value that the rule type of a table rule reads
ExpectedKey(r) ==
    CASE r.rule_type = "nationality" -> "countries"
      [] r.rule_type = "gpa" -> "min"
      [] r.rule_type = "degree" -> "degrees"
      [] r.rule_type = "work_experience" -> "years"

\* C9 as stated: a table rule whose value lacks the field its rule type
\* expects evaluates Failed for every profile.
C9_MissingFieldFails ==
    \A i \in 1..Len(Fetch) :
        LET rs == RulesOf(Fetch[i])
        IN  \A j \in 1..Len(rs) :
                (~OffTable(rs[j]) /\ Lacks(rs[j], ExpectedKey(rs[j]))) =>
                    Evaluate(rs[j], profile) = "Failed"

\* C9 amended: a table rule whose value is an object lacking the field its
\* rule type expects never raises; without countries or degrees it is
\* Failed for every profile; without min it is Matched exactly when the gpa
\* band is a mapped one (the threshold is 0); without years it is Matched
\* exactly when work_experience_years >= 0 (the threshold is 0).
C9_MissingFieldDefaults ==
    \A i \in 1..Len(Fetch) :
        LET rs == RulesOf(Fetch[i])
        IN  \A j \in 1..Len(rs) :
                (~OffTable(rs[j]) /\ Lacks(rs[j], ExpectedKey(rs[j]))) =>
                    LET o == Evaluate(rs[j], profile)
                        want ==
                            CASE rs[j].rule_type = "gpa" -> profile.gpa_band \in MappedBands
                              [] rs[j].rule_type = "work_experience" ->
                                     profile.work_experience_years >= 0
                              [] OTHER -> FALSE
                    IN  /\ o = (IF want THEN "Matched" ELSE "Failed")
                        /\ (Published /\ Len(rs) = 1) =>
                               InGroup(Fetch[i], IF want THEN results.eligible
                                                 ELSE results.not_eligible)

\* C9 witness: a program whose only rule is (work_experience, >=) with no
\* years has been published as eligible.
C9_Witness ==
    /\ Published
    /\ \E i \in 1..Len(Fetch) :
          LET rs == RulesOf(Fetch[i])
          IN  /\ Len(rs) = 1
              /\ IsRule(rs[1], "work_experience", ">=")
              /\ Lacks(rs[1], "years")
              /\ InGroup(Fetch[i], results.eligible)

\* the midpoints of the five bands, in hundredths
C10_Midpoint(band) ==
    CASE band = "below_2.5" -> 200
      [] band = "2.5_3.0" -> 275
      [] band = "3.0_3.5" -> 325
      [] band = "3.5_4.0" -> 375
      [] band = "above_4.0" -> 400

\* C10: for a (gpa, >=) rule and a profile with a mapped band, the rule is
\* Matched exactly when the band's midpoint is >= value.min, with value.min
\* taken as 0 when absent, and Failed otherwise.
C10_GpaMidpointThreshold ==
    \A i \in 1..Len(Fetch) :
        LET rs == RulesOf(Fetch[i])
        IN  \A j \in 1..Len(rs) :
                ( /\ IsRule(rs[j], "gpa", ">=")
                  /\ rs[j].value.tag = "object"
                  /\ profile.gpa_band \in MappedBands ) =>
                    LET min == IF rs[j].value.key = "min" THEN rs[j].value.num ELSE 0
                        want == C10_Midpoint(profile.gpa_band) >= min
                    IN  /\ Evaluate(rs[j], profile) = (IF want THEN "Matched" ELSE "Failed")
                        /\ (Published /\ Len(rs) = 1) =>
                               InGroup(Fetch[i], IF want THEN results.eligible
                                                 ELSE results.not_eligible)

\* C10 witness: with band 3.0_3.5, a program whose only rule is (gpa, >=)
\* with min 3.3 has been published as not_eligible.
C10_Witness ==
    /\ Published
    /\ profile.gpa_band = "3.0_3.5"
    /\ \E i \in 1..Len(Fetch) :
          LET rs == RulesOf(Fetch[i])
          IN  /\ Len(rs) = 1
              /\ IsRule(rs[1], "gpa", ">=")
              /\ rs[1].value.key = "min"
              /\ rs[1].value.num = 330
              /\ InGroup(Fetch[i], results.not_eligible)

-----------------------------------------------------------------------------
\* the bucket that the counts of the outcomes of the rules rs give
BucketOfCounts(rs) ==
    LET matches == Cardinality({k \in 1..Len(rs) :
                        Evaluate(rs[k], profile) \in {"Matched", "Indeterminate"}})
        fails == Cardinality({k \in 1..Len(rs) : Evaluate(rs[k], profile) = "Failed"})
    IN  IF Len(rs) = 0 THEN "maybe"
        ELSE IF fails = 0 /\ matches > 0 THEN "eligible"
        ELSE IF fails > 0 /\ matches > 0 THEN "maybe"
        ELSE "not_eligible"

-----------------------------------------------------------------------------
\* the permutations of 1..n
Perms(n) == {q \in [1..n -> 1..n] : \A a, b \in 1..n : q[a] = q[b] => a = b}

\* the permutations of the positions of every rule list of the model
PermsOfLen ==
    [n \in 0..(IF MaxRules > MaxCoreRules THEN MaxRules ELSE MaxCoreRules) |-> Perms(n)]

\* the rule list rs in the order q
Permute(rs, q) == [k \in 1..Len(rs) |-> rs[q[k]]]

\* C12: the bucket does not depend on the order of the rules: for the
\* profile of the submission, every permutation of a program's rule list is
\* classified as the rule list itself is (a rule list that throws does so in
\* every order), and that is the group the program was published in.
C12_RuleOrderIndependent ==
    \A i \in 1..Len(Fetch) :
        LET p == Fetch[i]
            rs == RulesOf(p)
            b == Classify(p, profile)
        IN  /\ \A q \in PermsOfLen[Len(rs)] :
                   Classify(Program(p.id, RuleArray(Permute(rs, q))), profile) = b
            /\ (Published /\ b # "Raise") => InGroup(p, GroupOf(results, b))

\* C12 witness: a program whose first rule is Failed and whose second rule is
\* Matched has been published, in maybe.
C12_Witness ==
    /\ Published
    /\ \E j \in 1..Len(results.maybe) :
          LET rs == RulesOf(results.maybe[j])
          IN  /\ Len(rs) >= 2
              /\ Evaluate(rs[1], profile) = "Failed"
              /\ Evaluate(rs[2], profile) = "Matched"

-----------------------------------------------------------------------------
\* C13: programs are classified independently: once a submission that
\* received programs is over, each of its programs that is classified when
\* it is the only program of the batch is in the group it gets when alone,
\* whatever the other programs of the batch and whatever its position.
C13_ProgramsIndependent ==
    (Fetched /\ pc # "awaiting") =>
        \A i \in 1..Len(Fetch) :
            LET p == Fetch[i]
                alone == ClassifyAll(<<p>>, profile, EmptyGroups)
            IN  alone.tag = "set" =>
                    /\ results.tag = "set"
                    /\ \A name \in GroupNames :
                           InGroup(p, GroupOf(results, name))
                               <=> InGroup(p, GroupOf(alone, name))

-----------------------------------------------------------------------------
\* C14: work_experience_years is >= 0 in every reachable state, in the form
\* and in the profile a submission classifies with, whatever text is entered
\* in the work-experience field.
C14_YearsNonNegative ==
    /\ form.work_experience_years >= 0
    /\ profile.work_experience_years >= 0

\* C15: the order of the buckets, worst first
Rank(b) ==
    CASE b = "not_eligible" -> 0
      [] b = "maybe" -> 1
      [] b = "eligible" -> 2

\* the years of work experience the field can be set to
WorkYears == {ParseIntOr0(t) : t \in Texts}

\* the forms that differ from f only by more years of work experience or by
\* a gpa band of a higher midpoint (both bands among the five mapped ones)
Stronger(f) ==
    { [f EXCEPT !.gpa_band = b, !.work_experience_years = y] :
        b \in {f.gpa_band} \cup
              { c \in MappedBands :
                  /\ f.gpa_band \in MappedBands
                  /\ C10_Midpoint(c) > C10_Midpoint(f.gpa_band) },
        y \in {z \in WorkYears : z >= f.work_experience_years} }

\* C15: classification is monotone in the profile's strength: for every
\* fetched program and every stronger form, the program's bucket is not
\* worse than its bucket for the profile of the submission (a program whose
\* rules throw does so for both).
C15_MonotoneInProfile ==
    \A i \in 1..Len(Fetch) :
        LET b == Classify(Fetch[i], profile)
        IN  /\ \A g \in Stronger(profile) :
                   LET c == Classify(Fetch[i], g)
                   IN  IF b = "Raise" THEN c = "Raise"
                       ELSE c # "Raise" /\ Rank(c) >= Rank(b)
            /\ (Published /\ b # "Raise") => InGroup(Fetch[i], GroupOf(results, b))

\* C15 witness: a program published as not_eligible for the profile of the
\* submission is eligible for a stronger form that differs in the gpa band,
\* and one that differs in the years of work experience.
C15_Witness ==
    /\ Published
    /\ \E i \in 1..Len(Fetch) :
          /\ InGroup(Fetch[i], results.not_eligible)
          /\ \E g \in Stronger(profile) :
                /\ g.gpa_band # profile.gpa_band
                /\ g.work_experience_years > profile.work_experience_years
                /\ Classify(Fetch[i], g) = "eligible"

\* C16: once a call of handleSubmit is over, on any path out of it, loading
\* is false again.
C16_LoadingReset == pc # "awaiting" => loading = FALSE

\* C17: the results shown are null at first and change only when a
\* submission whose query returned data ends, to the classification of that
\* data for the profile of that submission; a submission whose query
\* returned null, and every other step, leaves them unchanged.
C17_LastDataShown ==
    /\ results = NoResults
    /\ [][ IF pc = "awaiting" /\ pc' # "awaiting" /\ programs'.tag = "array"
           THEN results' = ClassifyAll(programs'.items, profile, EmptyGroups)
           ELSE results' = results ]_vars

====
